---- MODULE Spec2Model ----
(***************************************************************************)
(* parish-records, src/server.js (the variant with session login, lines    *)
(* 1-269): the Express middleware chain, the express-session store it      *)
(* configures, initDb and the five lookup handlers, as a state machine.    *)
(*                                                                         *)
(* One request is followed at a time.  Its synchronous part (every         *)
(* middleware up to the handler's first await) is one step; each awaited   *)
(* query completes in a later step, so initDb's smoke test and session     *)
(* expiry interleave with a suspended handler.  The answered request stays *)
(* visible until Finish releases it.                                       *)
(***************************************************************************)
EXTENDS Integers, Sequences, FiniteSets, TLC

\* ------------------------------------------------------------------ bounds
MaxSid == 2          \* session ids the id generator hands out in a run
MaxNameLen == 2      \* characters in a stored full_name
MaxQLen == 2         \* characters in the q parameter
MaxFamilies == 2     \* family rows (one member each) in the table

\* ------------------------------------------------------- program constants
MemberLimit == 500   \* LIMIT 500 of memberByName, line 212

VARIABLES
  basicOn,      \* BASIC_USER is set in the environment
  pool,         \* the module-level `pool` is non-null
  initDbState,  \* where initDb is: "testing" (awaiting SELECT 1), "ok", "failed"
  sessions,     \* the MemoryStore, sid -> "live" | "expired" (entry present) or
                \* "absent" (never saved) | "destroyed" (deleted by logout) |
                \* "purged" (deleted when read after it expired)
  issued,       \* number of session ids saved so far (ids are 1..issued)
  req,          \* the request being served: "idle", awaiting a query, or "done"
  members,      \* family_members joined with family_groups (lookup model)
  qRaw,         \* req.query.q of the lookup under test
  lookup        \* the lookup's progress and answer

vars == <<basicOn, pool, initDbState, sessions, issued, req,
          members, qRaw, lookup>>

lookupVars == <<members, qRaw, lookup>>

\* ------------------------------------------------------------- strings
\* A string is a sequence of characters over a small alphabet.
Chars == {"a", "A", "_", "%", " "}

RECURSIVE Strings(_)
Strings(n) ==
  IF n = 0 THEN {<<>>}
  ELSE LET shorter == Strings(n - 1)
       IN shorter \cup {Append(s, c) : s \in {t \in shorter : Len(t) = n - 1}, c \in Chars}

\* String.prototype.trim
RECURSIVE TrimLeft(_)
TrimLeft(s) == IF s # <<>> /\ Head(s) = " " THEN TrimLeft(Tail(s)) ELSE s

RECURSIVE TrimRight(_)
TrimRight(s) ==
  IF s # <<>> /\ s[Len(s)] = " " THEN TrimRight(SubSeq(s, 1, Len(s) - 1)) ELSE s

Trim(s) == TrimRight(TrimLeft(s))

\* ------------------------------------------------------------- requests
Sids == 1..MaxSid

\* Paths are sequences of segments: <<>> is "/", <<"api","nope">> is "/api/nope".
DataNames == {"allFamilies", "allMembers", "familyBySr", "memberByName", "familiesByHead"}
ParamNames == {"familyBySr", "memberByName", "familiesByHead"}

ApiPaths == {<<"api", n>> : n \in DataNames \cup {"login", "logout", "ping", "nope"}}
            \cup {<<"api">>}
OtherPaths == {<<"ping">>, <<"pingx">>, <<>>, <<"login.html">>, <<"other">>}
Paths == ApiPaths \cup OtherPaths

\* The (method, path) pairs requests are drawn from.
Endpoints ==
  {<<"GET", p>> : p \in Paths}
  \cup {<<"POST", p>> : p \in {<<"api", "login">>, <<"api", "logout">>,
                               <<"api", "allFamilies">>, <<"ping">>, <<>>}}

\* The Accept header, as the list of media types it names (<<>>: no header).
Accepts == {<<>>, <<"text/html">>, <<"text/html", "application/json">>}

\* The Authorization header: absent, a wrong user:pass pair, the configured pair.
AuthHeaders == {"none", "bad", "ok"}

\* req.body of a login: username and password, "" when the field is missing.
Bodies ==
  {[username |-> u, password |-> p] :
     u \in {"", "admin", "bob"}, p \in {"", "ian.rdr4", "guess"}}
NoBody == [username |-> "", password |-> ""]

\* req.query.sr / req.query.q: absent is <<>> (`req.query.q || ''`).
Queries == {<<>>, <<" ">>, <<"a">>}

IdleReq ==
  [phase |-> "idle", method |-> "GET", path |-> <<>>, cookie |-> 0, accept |-> <<>>,
   auth |-> "none", body |-> NoBody, query |-> <<>>,
   sess |-> "unread", route |-> "none", resp |-> "none", newSid |-> 0,
   nq |-> 0, arrivedAt |-> "testing", untested |-> FALSE]

\* --------------------------------------------------- basic auth, lines 15-28
BasicAuth(on, auth) ==
  IF ~on THEN TRUE
  ELSE IF auth = "none" THEN FALSE
  ELSE auth = "ok"

\* --------------------------------------- express-session store, lines 60-71
\* What the cookie's sid names in the store when the middleware reads it.
SessAtLoad(store, cookie) ==
  IF cookie = 0 THEN "nocookie" ELSE store[cookie]

\* MemoryStore.get: an expired entry is deleted when it is read.
StoreAfterGet(store, cookie) ==
  IF cookie # 0 /\ store[cookie] = "expired"
  THEN [store EXCEPT ![cookie] = "purged"] ELSE store

\* Mutant: the middleware adopts the id the cookie carries.
GenerateIdFromCookie(cookie, n) == IF cookie # 0 THEN cookie ELSE n + 1

\* The id of a session the middleware generates: always a fresh one.
GenerateId(cookie, n) == n + 1

\* req.session after the middleware: the stored session when the cookie names a
\* live one, otherwise a new, empty, unsaved session under a generated id.
LoadSession(store, cookie, n) ==
  IF SessAtLoad(store, cookie) = "live"
  THEN [id |-> cookie, user |-> TRUE, isNew |-> FALSE]
  ELSE [id |-> GenerateId(cookie, n), user |-> FALSE, isNew |-> TRUE]

\* --------------------------------------------------- routing, lines 91-263
IsUnderApi(p) == Len(p) >= 1 /\ p[1] = "api"          \* app.use('/api', ...)
RelPath(p) == SubSeq(p, 2, Len(p))                    \* req.path inside the mount
StartsWithApiSlash(p) == Len(p) >= 2 /\ p[1] = "api"  \* startsWith('/api/')
StartsWithPing(p) == Len(p) >= 1 /\ p[1] \in {"ping", "pingx"}  \* startsWith('/ping')

AcceptsJson(accept) == \E i \in 1..Len(accept) : accept[i] = "application/json"

\* Mutant: requireAuth tests req.session, which the middleware always sets.
RequireAuthSessionOnly(path, user, accept) == "next"

\* Mutant: requireAuth answers 401 JSON without looking at Accept.
RequireAuthAlwaysJson(path, user, accept) ==
  IF path = <<"ping">> THEN "next"
  ELSE IF user THEN "next"
  ELSE "deny401"

\* requireAuth, lines 127-141; path is req.path inside the /api mount.
RequireAuth(path, user, accept) ==
  IF path = <<"ping">> THEN "next"
  ELSE IF user THEN "next"
  ELSE IF AcceptsJson(accept) THEN "deny401"
  ELSE "denyRedirect"

\* app.use('/api', ...), lines 144-148
ApiGate(path, user, accept) ==
  IF RelPath(path) = <<"login">> \/ RelPath(path) = <<"logout">> THEN "next"
  ELSE RequireAuth(RelPath(path), user, accept)

\* express.static over public/, line 244: GET only.  public/ holds the two pages the
\* routes below send, index.html and login.html; "/" is served its index.html.
StaticFile(method, path) ==
  IF method # "GET" THEN "none"
  ELSE IF path = <<>> THEN "index.html"
  ELSE IF path = <<"login.html">> THEN "login.html"
  ELSE "none"

\* The handler a request ends in, in registration order.
Route(method, path, user, accept) ==
  IF method = "GET" /\ path = <<"ping">> THEN "ping"
  ELSE IF method = "POST" /\ path = <<"api", "login">> THEN "login"
  ELSE IF method = "POST" /\ path = <<"api", "logout">> THEN "logout"
  ELSE IF IsUnderApi(path) /\ ApiGate(path, user, accept) # "next"
       THEN ApiGate(path, user, accept)
  ELSE IF method = "GET" /\ Len(path) = 2 /\ path[1] = "api" /\ path[2] \in DataNames
       THEN path[2]
  ELSE IF StaticFile(method, path) # "none" THEN "static"
  ELSE IF method = "GET" /\ path = <<>> THEN "root"
  ELSE "fallback"

\* Root route, lines 247-252
RootResp(user) == IF user THEN "200 index.html" ELSE "302 /login.html"

\* Mutant: the fallback tests the /api/ prefix only.
FallbackRespApiOnly(path, user) ==
  IF StartsWithApiSlash(path) THEN "404 API endpoint not found"
  ELSE IF user THEN "200 index.html"
  ELSE "200 login.html"

\* SPA fallback, lines 255-263
FallbackResp(path, user) ==
  IF StartsWithApiSlash(path) \/ StartsWithPing(path) THEN "404 API endpoint not found"
  ELSE IF user THEN "200 index.html"
  ELSE "200 login.html"

\* POST /api/login, lines 98-112
LoginResp(body) ==
  IF body.username = "" \/ body.password = "" THEN "400 Missing username or password"
  ELSE IF body.username = "admin" /\ body.password = "ian.rdr4" THEN "200 login ok"
  ELSE "401 Invalid username or password"

\* Mutant: destroying a session the store does not hold reports an error.
DestroyErrWhenAbsent(store, sid) == sid \notin Sids \/ store[sid] # "live"

\* POST /api/logout, lines 115-124; MemoryStore.destroy deletes the entry and
\* never reports an error.
DestroyErr(store, sid) == FALSE
LogoutResp(store, sid) ==
  IF DestroyErr(store, sid) THEN "500 Logout failed" ELSE "200 logout ok"
StoreAfterDestroy(store, sid) ==
  IF sid \in Sids THEN [store EXCEPT ![sid] = "destroyed"] ELSE store

\* The parameter check of a lookup handler: "" when it passes.
ParamResp(name, query) ==
  IF name \in ParamNames /\ Trim(query) = <<>>
  THEN (IF name = "familyBySr" THEN "400 missing sr" ELSE "400 missing q")
  ELSE ""

\* Mutant: the handler goes to the pool without testing it.
PoolRespUnchecked(p) == ""

\* The store check of a lookup handler: `if (!pool) return 500`.
PoolResp(p) == IF ~p THEN "500 DB not connected" ELSE ""

\* The module-level pool once the smoke test has failed, line 85.
PoolAfterFail == FALSE

\* ------------------------------------------------------------------ Init
InitLookupIdle ==
  /\ members = {}
  /\ qRaw = <<>>
  /\ lookup = [phase |-> "off", status |-> "none", rows |-> <<>>, all |-> <<>>]

Init ==
  /\ basicOn \in BOOLEAN
  /\ pool = TRUE
  /\ initDbState = "testing"
  /\ sessions = [s \in Sids |-> "absent"]
  /\ issued = 0
  /\ req = IdleReq
  /\ InitLookupIdle

\* ------------------------------------------------------------- actions
Answer(r, sess, route, resp) ==
  [r EXCEPT !.phase = "done", !.sess = sess, !.route = route, !.resp = resp]

NewReq(m, p, c, a, h, b, q) ==
  [IdleReq EXCEPT !.phase = "new", !.method = m, !.path = p, !.cookie = c,
                  !.accept = a, !.auth = h, !.body = b, !.query = q,
                  !.arrivedAt = initDbState]

Free == req.phase = "idle"

HeadersNow == IF basicOn THEN AuthHeaders ELSE {"none"}
BodiesFor(m, p) == IF m = "POST" /\ p = <<"api", "login">> THEN Bodies ELSE {NoBody}
QueriesFor(m, p) ==
  IF m = "GET" /\ Len(p) = 2 /\ p[1] = "api" /\ p[2] \in ParamNames THEN Queries ELSE {<<>>}
AcceptsFor(p) == IF IsUnderApi(p) THEN Accepts ELSE {<<"text/html">>}

\* The synchronous part of one request, from the first middleware to the
\* response or to the handler's first await.
Serve(r) ==
  IF ~BasicAuth(basicOn, r.auth)
  THEN /\ req' = Answer(r, "unread", "basic", "401 Auth required")
       /\ UNCHANGED <<sessions, issued>>
  ELSE
    LET at == SessAtLoad(sessions, r.cookie)
        st == StoreAfterGet(sessions, r.cookie)
        s == LoadSession(sessions, r.cookie, issued)
        route == Route(r.method, r.path, s.user, r.accept)
    IN
    CASE route = "ping" ->
           /\ req' = Answer(r, at, route, "200 ping")
           /\ sessions' = st
           /\ UNCHANGED issued
      [] route = "login" ->
           LET resp == LoginResp(r.body)
               save == resp = "200 login ok" /\ s.isNew
           IN /\ save => s.id \in Sids
              /\ req' = [Answer(r, at, route, resp) EXCEPT
                           !.newSid = IF save THEN s.id ELSE 0]
              /\ sessions' = IF save THEN [st EXCEPT ![s.id] = "live"] ELSE st
              /\ issued' = IF save THEN issued + 1 ELSE issued
      [] route = "logout" ->
           /\ req' = Answer(r, at, route, LogoutResp(st, s.id))
           /\ sessions' = IF s.isNew THEN st ELSE StoreAfterDestroy(st, s.id)
           /\ UNCHANGED issued
      [] route = "deny401" ->
           /\ req' = Answer(r, at, route, "401 Not authenticated")
           /\ sessions' = st
           /\ UNCHANGED issued
      [] route = "denyRedirect" ->
           /\ req' = Answer(r, at, route, "302 /login.html")
           /\ sessions' = st
           /\ UNCHANGED issued
      [] route \in DataNames ->
           /\ req' = IF ParamResp(route, r.query) # ""
                       THEN Answer(r, at, route, ParamResp(route, r.query))
                     ELSE IF PoolResp(pool) # ""
                       THEN Answer(r, at, route, PoolResp(pool))
                     ELSE [r EXCEPT !.phase = "q1", !.sess = at, !.route = route,
                                    !.nq = 1, !.untested = (initDbState # "ok")]
           /\ sessions' = st
           /\ UNCHANGED issued
      [] route = "static" ->
           /\ req' = Answer(r, at, route, "200 " \o StaticFile(r.method, r.path))
           /\ sessions' = st
           /\ UNCHANGED issued
      [] route = "root" ->
           /\ req' = Answer(r, at, route, RootResp(s.user))
           /\ sessions' = st
           /\ UNCHANGED issued
      [] route = "fallback" ->
           /\ req' = Answer(r, at, route, FallbackResp(r.path, s.user))
           /\ sessions' = st
           /\ UNCHANGED issued

\* A request arrives and runs to its response or first await.
Arrive ==
  /\ Free
  /\ \E e \in Endpoints, c \in 0..issued, h \in HeadersNow :
       \E a \in AcceptsFor(e[2]), b \in BodiesFor(e[1], e[2]), q \in QueriesFor(e[1], e[2]) :
          Serve(NewReq(e[1], e[2], c, a, h, b, q))
  /\ UNCHANGED <<basicOn, pool, initDbState>>
  /\ UNCHANGED lookupVars

\* An awaited pool.execute of a lookup handler settles, lines 152-241.
QueryDone ==
  /\ req.phase \in {"q1", "q2"}
  /\ \E outcome \in {"rows", "empty", "error"} :
       req' =
         IF outcome = "error" THEN [req EXCEPT !.phase = "done", !.resp = "500 server error"]
         ELSE IF req.route # "familyBySr"
           THEN [req EXCEPT !.phase = "done", !.resp = "200 results"]
         ELSE IF req.phase = "q2"
           THEN [req EXCEPT !.phase = "done", !.resp = "200 found true"]
         ELSE IF outcome = "empty"
           THEN [req EXCEPT !.phase = "done", !.resp = "200 found false"]
         ELSE IF ~pool  \* pool.execute on null throws inside the try
           THEN [req EXCEPT !.phase = "done", !.resp = "500 server error"]
         ELSE [req EXCEPT !.phase = "q2", !.nq = 2,
                          !.untested = (req.untested \/ initDbState # "ok")]
  /\ UNCHANGED <<basicOn, pool, initDbState, sessions, issued>>
  /\ UNCHANGED lookupVars

\* initDb's smoke test resolves, lines 81-82.
SmokeOk ==
  /\ initDbState = "testing"
  /\ initDbState' = "ok"
  /\ UNCHANGED <<basicOn, pool, sessions, issued, req>>
  /\ UNCHANGED lookupVars

\* initDb's smoke test rejects, lines 83-86.
SmokeFail ==
  /\ initDbState = "testing"
  /\ initDbState' = "failed"
  /\ pool' = PoolAfterFail
  /\ UNCHANGED <<basicOn, sessions, issued, req>>
  /\ UNCHANGED lookupVars

\* A stored session's cookie.expires passes (maxAge, line 69).
Expire ==
  /\ \E s \in Sids :
       /\ sessions[s] = "live"
       /\ sessions' = [sessions EXCEPT ![s] = "expired"]
  /\ UNCHANGED <<basicOn, pool, initDbState, issued, req>>
  /\ UNCHANGED lookupVars

\* The response has been written and the request is released.
Finish ==
  /\ req.phase = "done"
  /\ req' = IdleReq
  /\ UNCHANGED <<basicOn, pool, initDbState, sessions, issued>>
  /\ UNCHANGED lookupVars

Next == Arrive \/ QueryDone \/ Finish \/ SmokeOk \/ SmokeFail \/ Expire

Spec == Init /\ [][Next]_vars

\* ------------------------------------------------ memberByName, lines 201-220
\* The lookup is checked on its own: a table, a q, and the handler applied.
Names == Strings(MaxNameLen) \ {<<>>}

\* The column's case-insensitive collation: comparison folds case.
Fold(c) == IF c = "A" THEN "a" ELSE c

\* SQL `s LIKE p`: % matches any run of characters, _ any one character.
RECURSIVE Like(_, _)
Like(s, p) ==
  IF p = <<>> THEN s = <<>>
  ELSE IF Head(p) = "%" THEN Like(s, Tail(p)) \/ (s # <<>> /\ Like(Tail(s), p))
  ELSE /\ s # <<>>
       /\ (Head(p) = "_" \/ Fold(Head(p)) = Fold(Head(s)))
       /\ Like(Tail(s), Tail(p))

\* The bound parameter of the statement: `%${q}%`, line 213.
LikePattern(q) == <<"%">> \o q \o <<"%">>

\* WHERE fm.full_name LIKE ?
WhereName(row, q) == Like(row.full_name, LikePattern(q))

\* ORDER BY fg.family_id, fm.sr_no_in_family
RowBefore(x, y) ==
  \/ x.family_id < y.family_id
  \/ (x.family_id = y.family_id /\ x.sr_no_in_family <= y.sr_no_in_family)

RECURSIVE OrderRows(_)
OrderRows(rows) ==
  IF rows = {} THEN <<>>
  ELSE LET first == CHOOSE x \in rows : \A y \in rows : RowBefore(x, y)
       IN <<first>> \o OrderRows(rows \ {first})

\* LIMIT n
Limit(rows, n) == IF Len(rows) > n THEN SubSeq(rows, 1, n) ELSE rows

\* The rows memberByName answers with for the trimmed q.
MemberByNameRows(table, q) ==
  Limit(OrderRows({row \in table : WhereName(row, q)}), MemberLimit)

\* The rows allMembers answers with, lines 167-181.
AllMembersRows(table) == OrderRows(table)

Tables ==
  {{[family_id |-> f, sr_no_in_family |-> 1, full_name |-> name[f]] : f \in 1..MaxFamilies} :
     name \in [1..MaxFamilies -> Names]}

InitServerIdle ==
  /\ basicOn = FALSE
  /\ pool = TRUE
  /\ initDbState = "ok"
  /\ sessions = [s \in Sids |-> "absent"]
  /\ issued = 0
  /\ req = IdleReq

InitLookup ==
  /\ InitServerIdle
  /\ members \in Tables
  /\ qRaw \in Strings(MaxQLen)
  /\ lookup = [phase |-> "ready", status |-> "none", rows |-> <<>>, all |-> <<>>]

serverVars == <<basicOn, pool, initDbState, sessions, issued, req>>

\* GET /api/memberByName?q=qRaw by an admitted caller with the pool up.
MemberByName ==
  /\ lookup.status = "none"
  /\ lookup.phase # "off"
  /\ lookup' =
       IF Trim(qRaw) = <<>>
       THEN [lookup EXCEPT !.status = "400 missing q"]
       ELSE [lookup EXCEPT !.status = "200 results",
                           !.rows = MemberByNameRows(members, Trim(qRaw))]
  /\ UNCHANGED <<members, qRaw>>
  /\ UNCHANGED serverVars

\* GET /api/allMembers on the same table.
AllMembers ==
  /\ lookup.phase = "ready"
  /\ lookup' = [lookup EXCEPT !.phase = "listed", !.all = AllMembersRows(members)]
  /\ UNCHANGED <<members, qRaw>>
  /\ UNCHANGED serverVars

NextLookup == MemberByName \/ AllMembers

SpecLookup == InitLookup /\ [][NextLookup]_vars

\* ================================================================ claims
Valid(store) == {s \in Sids : store[s] = "live"}
PassedBasic(r) == r.sess # "unread"
ValidPair(b) == b.username = "admin" /\ b.password = "ian.rdr4"
UnderGate(p) ==
  IsUnderApi(p) /\ RelPath(p) \notin {<<"login">>, <<"logout">>}
\* No route is defined for the method and path.
Unmatched(m, p) ==
  /\ ~(m = "GET" /\ p = <<"ping">>)
  /\ ~(m = "POST" /\ p \in {<<"api", "login">>, <<"api", "logout">>})
  /\ ~(m = "GET" /\ Len(p) = 2 /\ p[1] = "api" /\ p[2] \in DataNames)
  /\ StaticFile(m, p) = "none"

\* C1: a lookup handler (allFamilies, allMembers, familyBySr, memberByName,
\* familiesByHead) runs only for a request whose cookie named a stored, unexpired
\* session (one saved by a login, so carrying the user) when the session was read.
C1_HandlerNeedsSession ==
  req.route \in DataNames => req.sess = "live" /\ req.cookie \in 1..issued

\* A lookup answered for one session after another session was logged out.
C1_Witness ==
  /\ req.phase = "done" /\ req.route \in DataNames /\ req.resp = "200 results"
  /\ \E s \in Sids : sessions[s] = "destroyed"

\* C2 as stated: a request presenting a token that a logout destroyed gets neither a
\* lookup handler nor the authenticated landing page, on any protected path.
C2_DeniedAfterLogout ==
  (/\ req.phase # "idle"
   /\ PassedBasic(req)
   /\ req.sess = "destroyed"
   /\ (UnderGate(req.path) \/ req.path = <<>>))
  => req.route \notin DataNames /\ req.resp # "200 index.html"

LoginStep == req.phase = "idle" /\ req'.phase = "done" /\ req'.route = "login"

C4_PingAlwaysAnswered ==
  (req.phase = "done" /\ req.method = "GET" /\ req.path = <<"ping">>)
  => req.resp = "200 ping"

C6_NotFoundExactly ==
  req.phase = "done" =>
    ((req.resp = "404 API endpoint not found") =
       (/\ PassedBasic(req)
        /\ Unmatched(req.method, req.path)
        /\ (StartsWithApiSlash(req.path) \/ StartsWithPing(req.path))
        /\ (UnderGate(req.path) =>
              RelPath(req.path) = <<"ping">> \/ req.sess = "live")))

\* An unmatched API path asked for with a live session got the 404.
C6_Witness ==
  /\ req.phase = "done" /\ req.path = <<"api", "nope">> /\ req.sess = "live"
  /\ req.resp = "404 API endpoint not found"

\* C6 as stated: an unmatched API-prefixed or health-check path gets the 404 for
\* every session state of the caller.
C6_NotFoundForEverySession ==
  (/\ req.phase = "done" /\ PassedBasic(req)
   /\ Unmatched(req.method, req.path)
   /\ (StartsWithApiSlash(req.path) \/ StartsWithPing(req.path)))
  => req.resp = "404 API endpoint not found"

\* C7 as amended: once initDb has failed the pool is null for good, and a request
\* arriving from then on that reaches a lookup handler is answered without a query:
\* 400 when its required parameter is empty after trimming, 500 "DB not connected"
\* otherwise.
C7_AfterInitFailure ==
  /\ (initDbState = "failed" => ~pool)
  /\ (req.arrivedAt = "failed" /\ req.route \in DataNames) =>
        /\ req.phase = "done"
        /\ req.nq = 0
        /\ req.resp =
             IF req.route \in ParamNames /\ Trim(req.query) = <<>>
             THEN (IF req.route = "familyBySr" THEN "400 missing sr" ELSE "400 missing q")
             ELSE "500 DB not connected"

\* A lookup arriving after the failure was answered "DB not connected".
C7_Witness ==
  /\ req.phase = "done" /\ req.arrivedAt = "failed" /\ req.route = "familyBySr"
  /\ req.resp = "500 DB not connected" /\ req.nq = 0

\* C7 as stated: after the failure every request to a lookup endpoint is answered
\* 500 "DB not connected".
C7_AlwaysDbNotConnected ==
  (req.phase # "idle" /\ req.arrivedAt = "failed" /\ req.route \in DataNames)
  => req.resp = "500 DB not connected" /\ req.nq = 0

\* Case-insensitive substring test.
Contains(s, q) ==
  \E i \in 0..(Len(s) - Len(q)) :
     \A j \in 1..Len(q) : Fold(s[i + j]) = Fold(q[j])

\* C8 as stated: for q (here already trimmed and non-empty) memberByName answers
\* exactly the members whose full name contains q, case-insensitively, in
\* (family_id, sr_no_in_family) order, capped at 500, all of them rows of allMembers.
C8_ExactSubstringMatch ==
  (lookup.status # "none" /\ qRaw # <<>> /\ Trim(qRaw) = qRaw) =>
     /\ lookup.status = "200 results"
     /\ lookup.rows =
          Limit(OrderRows({row \in members : Contains(row.full_name, qRaw)}), MemberLimit)

LogoutStep == req.phase = "idle" /\ req'.phase = "done" /\ req'.route = "logout"

\* C9: a logout that reaches its handler answers 200 {ok:true} whatever the token
\* names, leaves no live session under that token and touches no other session; a
\* logout whose token is already gone (destroyed before, or none sent) changes nothing.
C9_LogoutIdempotent ==
  [][LogoutStep =>
      /\ req'.resp = "200 logout ok"
      /\ Valid(sessions') = Valid(sessions) \ {req'.cookie}
      /\ (req'.sess \in {"nocookie", "destroyed", "purged"} => sessions' = sessions)]_vars

\* A second logout with the same token was answered 200.
C9_Witness ==
  /\ req.phase = "done" /\ req.route = "logout" /\ req.resp = "200 logout ok"
  /\ req.cookie # 0 /\ req.sess = "destroyed"

\* C10 as stated: every query a handler issues goes to a pool whose smoke test had
\* already succeeded.
C10_QueryOnlyOnTestedPool ==
  req.nq > 0 => ~req.untested

====

